---------------------------- MODULE Spec2Model ----------------------------
(***************************************************************************)
(* Model of whinator (src/src/lib.rs, src/src/bin/receiver.rs): a webhook   *)
(* receiver that, per POST request, creates a JsRuntime, binds the JSON     *)
(* payload as the global `body`, runs the fixed script                      *)
(* `body.pull_request.url;`, converts the result back to JSON, drops the    *)
(* runtime and answers 200 or 500.                                          *)
(***************************************************************************)
EXTENDS Integers, Sequences, FiniteSets, TLC

(***************************************************************************)
(* Bounds of the model.                                                     *)
(***************************************************************************)
\* Request handlers that may run at the same time (tokio worker threads).
NumWorkers == 2
\* Requests accepted in one behaviour; caps the request and runtime counters.
MaxRequests == 2

Workers == 1..NumWorkers
RuntimeIds == 1..MaxRequests

(***************************************************************************)
(* serde_json::Value: the JSON data model of the payload and of the result. *)
(* Objects are maps from keys to values (serde_json::Map).                  *)
(***************************************************************************)
JNull == [t |-> "null"]
JBool(b) == [t |-> "bool", b |-> b]
JNum(n) == [t |-> "num", n |-> n]
JStr(s) == [t |-> "str", s |-> s]
JArr(a) == [t |-> "arr", a |-> a]
JObj(o) == [t |-> "obj", o |-> o]
\* No JSON value yet (an unset Option in the model's bookkeeping).
NoJson == [t |-> "none"]
EmptyMap == [k \in {} |-> JNull]

(***************************************************************************)
(* v8 values: the engine's value model.  undefined and null are distinct;   *)
(* objects are property maps.                                               *)
(***************************************************************************)
Undefined == [T |-> "Undefined"]
VNull == [T |-> "Null"]
VBoolean(b) == [T |-> "Boolean", B |-> b]
VNumber(n) == [T |-> "Number", N |-> n]
VString(s) == [T |-> "String", S |-> s]
VArray(e) == [T |-> "Array", E |-> e]
VObject(p) == [T |-> "Object", P |-> p]
\* No engine value yet.
NoValue == [T |-> "None"]

Ok(v) == [ok |-> TRUE, val |-> v]
Err == [ok |-> FALSE]

(***************************************************************************)
(* serde_v8::to_v8 on a serde_json::Value (lib.rs:77): structural and       *)
(* recursive; null -> null, bool -> Boolean, number -> Number,              *)
(* string -> String, array -> Array per element, object -> Object per key.  *)
(***************************************************************************)
\* Faulty variant: array elements are written back to front.
RECURSIVE to_v8_reversed(_)
to_v8_reversed(v) ==
    CASE v.t = "null" -> VNull
      [] v.t = "bool" -> VBoolean(v.b)
      [] v.t = "num" -> VNumber(v.n)
      [] v.t = "str" -> VString(v.s)
      [] v.t = "arr" ->
            VArray([i \in 1..Len(v.a) |-> to_v8_reversed(v.a[Len(v.a) + 1 - i])])
      [] v.t = "obj" -> VObject([k \in DOMAIN v.o |-> to_v8_reversed(v.o[k])])

RECURSIVE to_v8(_)
to_v8(v) ==
    CASE v.t = "null" -> VNull
      [] v.t = "bool" -> VBoolean(v.b)
      [] v.t = "num" -> VNumber(v.n)
      [] v.t = "str" -> VString(v.s)
      [] v.t = "arr" -> VArray([i \in 1..Len(v.a) |-> to_v8(v.a[i])])
      [] v.t = "obj" -> VObject([k \in DOMAIN v.o |-> to_v8(v.o[k])])

(***************************************************************************)
(* serde_v8::from_v8::<serde_json::Value> (lib.rs:92): undefined and null   *)
(* both become JSON null; the other kinds map back structurally.  Err is    *)
(* its error result; no value the script yields on a JSON payload has it.   *)
(***************************************************************************)
RECURSIVE from_v8(_)
from_v8(e) ==
    CASE e.T \in {"Undefined", "Null"} -> Ok(JNull)
      [] e.T = "Boolean" -> Ok(JBool(e.B))
      [] e.T = "Number" -> Ok(JNum(e.N))
      [] e.T = "String" -> Ok(JStr(e.S))
      [] e.T = "Array" ->
            IF \A i \in 1..Len(e.E) : from_v8(e.E[i]).ok
            THEN Ok(JArr([i \in 1..Len(e.E) |-> from_v8(e.E[i]).val]))
            ELSE Err
      [] e.T = "Object" ->
            IF \A k \in DOMAIN e.P : from_v8(e.P[k]).ok
            THEN Ok(JObj([k \in DOMAIN e.P |-> from_v8(e.P[k]).val]))
            ELSE Err
      [] OTHER -> Err

(***************************************************************************)
(* The script (lib.rs:86): "body.pull_request.url;", a global identifier    *)
(* followed by two property reads.                                          *)
(***************************************************************************)
\* Faulty variant: the script reads another property.
ScriptSourceHtmlUrl == <<"body", "pull_request", "html_url">>

ScriptSource == <<"body", "pull_request", "url">>

\* global.set(key, value) (lib.rs:81-83): defines or overwrites one global.
SetGlobal(g, key, value) ==
    [k \in (DOMAIN g) \cup {key} |-> IF k = key THEN value ELSE g[k]]

\* Reading a global identifier: a ReferenceError when it is not defined.
GetGlobal(g, name) == IF name \in DOMAIN g THEN Ok(g[name]) ELSE Err

\* Faulty variant: an absent property throws.
GetPropThrowing(e, key) ==
    IF e.T = "Object" /\ key \in DOMAIN e.P THEN Ok(e.P[key]) ELSE Err

\* JavaScript's o.key: a TypeError on undefined and null; undefined when the
\* property is absent (none of the keys read is on a built-in prototype).
GetProp(e, key) ==
    IF e.T \in {"Undefined", "Null"} THEN Err
    ELSE IF e.T = "Object" /\ key \in DOMAIN e.P THEN Ok(e.P[key])
    ELSE Ok(Undefined)

\* Evaluation of a chain g.p1.p2...: the completion value, or the exception.
RECURSIVE ReadChain(_, _)
ReadChain(res, props) ==
    IF ~res.ok \/ props = <<>> THEN res
    ELSE ReadChain(GetProp(res.val, Head(props)), Tail(props))

execute_script(g, source) ==
    ReadChain(GetGlobal(g, Head(source)), Tail(source))

(***************************************************************************)
(* Payloads the Json extractor can hand to handle_webhook (lib.rs:56).      *)
(***************************************************************************)
ExampleUrl == JStr("http://example.com")
Atoms == {JNull, JBool(TRUE), JNum(7), ExampleUrl}
Urls == Atoms \cup {JArr(<<JNum(7), JNull>>), JObj([html |-> ExampleUrl])}
PullRequests ==
    Atoms \cup {JArr(<<>>), JObj(EmptyMap)} \cup {JObj([url |-> u]) : u \in Urls}
Payloads ==
    Atoms
    \cup {JArr(<<JBool(TRUE), JNum(7)>>), JObj(EmptyMap), JObj([url |-> ExampleUrl])}
    \cup {JObj([pull_request |-> p]) : p \in PullRequests}
    \cup {JObj([pull_request |-> JObj([url |-> JArr(<<JObj(EmptyMap)>>)]),
                sender |-> JBool(FALSE)])}

\* The payloads of the runs with several handlers at once: one whose script
\* yields a string, one whose script yields undefined, one whose script throws.
ConcurrentPayloads ==
    {JObj([pull_request |-> JObj([url |-> ExampleUrl])]),
     JObj([pull_request |-> JObj(EmptyMap)]),
     JObj(EmptyMap)}

(***************************************************************************)
(* State.                                                                   *)
(***************************************************************************)
VARIABLES
    server,      \* "starting", "configured", "serving", "stopped"
    exitErr,     \* what main returned with: "none" or the Error variant
    reqs,        \* per worker: the request it is handling
    runtimes,    \* per runtime id: the JsRuntime of that id
    received,    \* requests accepted so far
    created      \* JsRuntimes created so far

vars == <<server, exitErr, reqs, runtimes, received, created>>

IdleReq ==
    [pc |-> "idle", body |-> NoJson, rt |-> 0, result |-> NoValue,
     value |-> NoJson, err |-> "none", failedAt |-> "none",
     status |-> 0, text |-> <<>>, log |-> <<>>, prev |-> 0]

UnusedRuntime == [state |-> "unused", owner |-> 0, globals |-> [k \in {} |-> Undefined]]

Init ==
    /\ server = "starting"
    /\ exitErr = "none"
    /\ reqs = [w \in Workers |-> IdleReq]
    /\ runtimes = [i \in RuntimeIds |-> UnusedRuntime]
    /\ received = 0
    /\ created = 0

(***************************************************************************)
(* Error (lib.rs:10-25): the variant each failing step's `?` or ok_or       *)
(* produces, and its Display text.                                          *)
(***************************************************************************)
BindSteps == {"to_v8", "key", "set"}

ErrorOf(step) ==
    CASE step = "to_v8" -> "DenoSerdeV8"           \* lib.rs:77, From at :20-21
      [] step = "key" -> "JSRuntimePassError"      \* lib.rs:80
      [] step = "set" -> "JSRuntimePassError"      \* lib.rs:83
      [] step = "eval" -> "DenoCore"               \* lib.rs:86, From at :18-19
      [] step = "from_v8" -> "DenoSerdeV8"         \* lib.rs:92, From at :20-21

\* The variants are #[error(transparent)] and show the wrapped error's own
\* message (a non-empty text, of which only that it is one matters here);
\* JSRuntimePassError shows its own.
Display(err) ==
    CASE err = "JSRuntimePassError" -> "body could not be passed to js runtime"
      [] err = "DenoSerdeV8" -> "serde_v8 error"
      [] err = "DenoCore" -> "Uncaught TypeError"
      [] OTHER -> "error"

Entry(step, ok, rt) == [step |-> step, ok |-> ok, rt |-> rt]

Fail(req, step) ==
    [req EXCEPT !.pc = "failed", !.err = ErrorOf(step), !.failedAt = step,
                !.log = Append(@, Entry(IF step \in BindSteps THEN "bind"
                                        ELSE IF step = "eval" THEN "eval" ELSE "extract",
                                        FALSE, req.rt))]

(***************************************************************************)
(* Startup (receiver.rs:16-17, lib.rs:34-54).                               *)
(***************************************************************************)
\* load_config: builds and deserializes the configuration, or fails.
load_config ==
    /\ server = "starting"
    /\ \E ok \in BOOLEAN :
          IF ok THEN server' = "configured" /\ exitErr' = exitErr
          ELSE server' = "stopped" /\ exitErr' = "Config"
    /\ UNCHANGED <<reqs, runtimes, received, created>>

\* listen: parses the address (AddrParse on failure), binds (hyper's bind
\* panics on failure) and starts serving.
listen ==
    /\ server = "configured"
    /\ \E outcome \in {"ok", "AddrParse", "bind"} :
          IF outcome = "ok" THEN server' = "serving" /\ exitErr' = exitErr
          ELSE server' = "stopped" /\ exitErr' = outcome
    /\ UNCHANGED <<reqs, runtimes, received, created>>

\* serve(...).await? (lib.rs:51-52): the server future ends with a hyper::Error.
serve_error ==
    /\ server = "serving"
    /\ server' = "stopped"
    /\ exitErr' = "HyperError"
    /\ UNCHANGED <<reqs, runtimes, received, created>>

(***************************************************************************)
(* One request (lib.rs:56-98).                                              *)
(***************************************************************************)
\* Faulty variant: a dropped runtime is taken again when there is one.
PooledRuntimeId ==
    IF \E id \in RuntimeIds : runtimes[id].state = "dropped"
    THEN CHOOSE id \in RuntimeIds : runtimes[id].state = "dropped"
    ELSE created + 1

\* The id JsRuntime::new gives the runtime it creates: a new one every time.
NewRuntimeId == created + 1

\* handle_webhook is entered with the parsed body and calls real_handler.
handle_webhook_call(w, payload) ==
    /\ server = "serving"
    /\ reqs[w].pc \in {"idle", "responded"}
    /\ received < MaxRequests
    /\ received' = received + 1
    /\ reqs' = [reqs EXCEPT ![w] = [IdleReq EXCEPT !.pc = "called", !.body = payload,
                                                    !.prev = reqs[w].status]]
    /\ UNCHANGED <<server, exitErr, runtimes, created>>

\* lib.rs:71: JsRuntime::new(Default::default()).
real_handler_new(w) ==
    /\ server = "serving"
    /\ reqs[w].pc = "called"
    /\ LET id == NewRuntimeId IN
          /\ id \in RuntimeIds
          /\ runtimes' = [runtimes EXCEPT ![id] =
                 [state |-> "alive", owner |-> w, globals |-> [k \in {} |-> Undefined]]]
          /\ reqs' = [reqs EXCEPT ![w].pc = "created", ![w].rt = id,
                                  ![w].log = Append(@, Entry("create", TRUE, id))]
    /\ created' = created + 1
    /\ UNCHANGED <<server, exitErr, received>>

\* lib.rs:72-84: to_v8(body), the key "body", global.set; each may be refused.
real_handler_bind(w) ==
    /\ server = "serving"
    /\ reqs[w].pc = "created"
    /\ \E outcome \in {"ok"} \cup BindSteps :
          IF outcome = "ok"
          THEN /\ runtimes' = [runtimes EXCEPT ![reqs[w].rt].globals =
                                   SetGlobal(@, "body", to_v8(reqs[w].body))]
               /\ reqs' = [reqs EXCEPT ![w].pc = "bound",
                               ![w].log = Append(@, Entry("bind", TRUE, reqs[w].rt))]
          ELSE /\ reqs' = [reqs EXCEPT ![w] = Fail(@, outcome)]
               /\ UNCHANGED runtimes
    /\ UNCHANGED <<server, exitErr, received, created>>

\* Faulty variant: the script is run without waiting for the bind.
real_handler_eval_unbound(w) ==
    /\ server = "serving"
    /\ reqs[w].pc \in {"created", "bound"}
    /\ LET res == execute_script(runtimes[reqs[w].rt].globals, ScriptSource) IN
          reqs' = [reqs EXCEPT ![w] =
                     IF res.ok
                     THEN [@ EXCEPT !.pc = "evaluated", !.result = res.val,
                                    !.log = Append(@, Entry("eval", TRUE, reqs[w].rt))]
                     ELSE Fail(@, "eval")]
    /\ UNCHANGED <<server, exitErr, runtimes, received, created>>

\* lib.rs:86: execute_script_static("handler", "body.pull_request.url;")?.
real_handler_eval(w) ==
    /\ server = "serving"
    /\ reqs[w].pc = "bound"
    /\ LET res == execute_script(runtimes[reqs[w].rt].globals, ScriptSource) IN
          reqs' = [reqs EXCEPT ![w] =
                     IF res.ok
                     THEN [@ EXCEPT !.pc = "evaluated", !.result = res.val,
                                    !.log = Append(@, Entry("eval", TRUE, reqs[w].rt))]
                     ELSE Fail(@, "eval")]
    /\ UNCHANGED <<server, exitErr, runtimes, received, created>>

\* lib.rs:87-95: from_v8::<serde_json::Value>(scope, local)?, then the log line.
real_handler_extract(w) ==
    /\ server = "serving"
    /\ reqs[w].pc = "evaluated"
    /\ LET res == from_v8(reqs[w].result) IN
          reqs' = [reqs EXCEPT ![w] =
                     IF res.ok
                     THEN [@ EXCEPT !.pc = "extracted", !.value = res.val,
                                    !.log = Append(@, Entry("extract", TRUE, reqs[w].rt))]
                     ELSE Fail(@, "from_v8")]
    /\ UNCHANGED <<server, exitErr, runtimes, received, created>>

\* The runtime after real_handler's scope ends: js_runtime is dropped on the
\* Ok(()) at lib.rs:97 and on every early return of a `?`.
DroppedRuntime == [state |-> "dropped", owner |-> 0, globals |-> [k \in {} |-> Undefined]]

\* Faulty variant: the runtime is destroyed on the success path only.
LeakOnError(rt, req) == IF req.err = "none" THEN DroppedRuntime ELSE rt

RuntimeAtReturn(rt, req) == DroppedRuntime

real_handler_return(w) ==
    /\ server = "serving"
    /\ reqs[w].pc \in {"extracted", "failed"}
    /\ runtimes' = [runtimes EXCEPT ![reqs[w].rt] = RuntimeAtReturn(@, reqs[w])]
    /\ reqs' = [reqs EXCEPT ![w].pc = "returned",
                            ![w].log = Append(@, Entry("destroy", TRUE, reqs[w].rt))]
    /\ UNCHANGED <<server, exitErr, received, created>>

\* Faulty variant: the error is swallowed.
ResponseAlwaysOk(err) == [status |-> 200, text |-> <<>>]

\* lib.rs:57-66: the match on real_handler's result.
Response(err) ==
    IF err = "none" THEN [status |-> 200, text |-> <<>>]
    ELSE [status |-> 500, text |-> <<"Something went wrong: ", Display(err)>>]

\* Faulty variant: the result is unwrapped, an Err ends the process.
handle_webhook_respond_unwrap(w) ==
    /\ server = "serving"
    /\ reqs[w].pc = "returned"
    /\ IF reqs[w].err = "none"
       THEN /\ reqs' = [reqs EXCEPT ![w].pc = "responded", ![w].status = 200,
                               ![w].log = Append(@, Entry("respond", TRUE, reqs[w].rt))]
            /\ UNCHANGED <<server, exitErr>>
       ELSE /\ server' = "stopped"
            /\ exitErr' = reqs[w].err
            /\ UNCHANGED reqs
    /\ UNCHANGED <<runtimes, received, created>>

handle_webhook_respond(w) ==
    /\ server = "serving"
    /\ reqs[w].pc = "returned"
    /\ reqs' = [reqs EXCEPT ![w].pc = "responded",
                            ![w].status = Response(reqs[w].err).status,
                            ![w].text = Response(reqs[w].err).text,
                            ![w].log = Append(@, Entry("respond", TRUE, reqs[w].rt))]
    /\ UNCHANGED <<server, exitErr, runtimes, received, created>>

Next ==
    \/ load_config
    \/ listen
    \/ serve_error
    \/ \E w \in Workers, payload \in ConcurrentPayloads : handle_webhook_call(w, payload)
    \/ \E w \in Workers : real_handler_new(w)
    \/ \E w \in Workers : real_handler_bind(w)
    \/ \E w \in Workers : real_handler_eval(w)
    \/ \E w \in Workers : real_handler_extract(w)
    \/ \E w \in Workers : real_handler_return(w)
    \/ \E w \in Workers : handle_webhook_respond(w)

\* Several handlers at once, on a few payloads.
Spec == Init /\ [][Next]_vars

SeqNext ==
    \/ load_config
    \/ listen
    \/ serve_error
    \/ \E payload \in Payloads : handle_webhook_call(1, payload)
    \/ real_handler_new(1)
    \/ real_handler_bind(1)
    \/ real_handler_eval(1)
    \/ real_handler_extract(1)
    \/ real_handler_return(1)
    \/ handle_webhook_respond(1)

\* One request after the other, on every payload.
SeqSpec == Init /\ [][SeqNext]_vars

(***************************************************************************)
(* Properties.                                                              *)
(***************************************************************************)
InFlight == {"created", "bound", "evaluated", "extracted", "failed"}
Holding(w) == reqs[w].rt # 0

\* C1. Isolation: every request runs in a runtime created for it alone.  No
\* two requests hold the same runtime, runtime ids are handed out once, an
\* alive runtime is owned by the request holding it, its only global is
\* `body` and equals that request's payload, and the value a request's
\* evaluation produced is the one the script yields on its own payload.
C1_Isolation ==
    /\ \A id \in RuntimeIds : (runtimes[id].state # "unused") <=> (id <= created)
    /\ \A id \in RuntimeIds :
          runtimes[id].state = "alive" =>
             \E w \in Workers : reqs[w].rt = id /\ runtimes[id].owner = w
    /\ \A w \in Workers :
          Holding(w) =>
             /\ \A w2 \in Workers \ {w} : reqs[w2].rt # reqs[w].rt
             /\ LET g == runtimes[reqs[w].rt].globals IN
                   /\ DOMAIN g \subseteq {"body"}
                   /\ "body" \in DOMAIN g => g["body"] = to_v8(reqs[w].body)
                   /\ reqs[w].pc = "bound" => "body" \in DOMAIN g
             /\ reqs[w].result # NoValue =>
                   reqs[w].result =
                      execute_script([k \in {"body"} |-> to_v8(reqs[w].body)], ScriptSource).val

\* Two handlers at once, each with its own payload bound in its own runtime.
C1_Witness ==
    \E w1, w2 \in Workers :
       /\ w1 # w2
       /\ reqs[w1].pc = "bound" /\ reqs[w2].pc = "bound"
       /\ reqs[w1].body # reqs[w2].body
       /\ runtimes[reqs[w1].rt].globals # runtimes[reqs[w2].rt].globals

\* C2. The runtime of a request is destroyed before real_handler returns, on
\* the success path and on every failure path: once a request has returned
\* or been answered its runtime is dropped, and only requests still inside
\* real_handler hold an alive runtime.
C2_DestroyedBeforeReturn ==
    /\ \A w \in Workers :
          reqs[w].pc \in {"returned", "responded"} =>
             runtimes[reqs[w].rt].state = "dropped"
    /\ \A id \in RuntimeIds :
          runtimes[id].state = "alive" =>
             \E w \in Workers : reqs[w].rt = id /\ reqs[w].pc \in InFlight

\* One request returned after success and one after a failed bind, both with
\* their runtimes dropped.
C2_Witness ==
    \E w1, w2 \in Workers :
       /\ reqs[w1].pc = "returned" /\ reqs[w1].err = "none"
       /\ reqs[w2].pc = "returned" /\ reqs[w2].failedAt \in BindSteps
       /\ runtimes[reqs[w1].rt].state = "dropped"
       /\ runtimes[reqs[w2].rt].state = "dropped"

\* C3. A failed bind (conversion of the payload, creation of the key, or the
\* set on the global) ends in an error of a kind that neither evaluation nor
\* result extraction produces, and the script is not evaluated.
C3_InjectionErrorDistinct ==
    \A w \in Workers :
       reqs[w].failedAt \in BindSteps =>
          /\ reqs[w].err \notin {ErrorOf("eval"), ErrorOf("from_v8")}
          /\ reqs[w].result = NoValue
          /\ \A i \in 1..Len(reqs[w].log) : reqs[w].log[i].step # "eval"

\* C4. An answered request has status 200 and an empty body exactly when
\* real_handler succeeded, and status 500 with a non-empty text when it
\* failed at any step.
C4_StatusMatchesOutcome ==
    \A w \in Workers :
       reqs[w].pc = "responded" =>
          /\ reqs[w].status \in {200, 500}
          /\ reqs[w].status = 200 <=> (reqs[w].failedAt = "none" /\ reqs[w].value # NoJson)
          /\ reqs[w].status = 200 => reqs[w].text = <<>>
          /\ reqs[w].status = 500 =>
                /\ reqs[w].failedAt # "none"
                /\ reqs[w].text # <<>>
                /\ \A i \in 1..Len(reqs[w].text) : reqs[w].text[i] # ""

\* One request answered 200 and another answered 500.
C4_Witness ==
    \E w1, w2 \in Workers :
       /\ reqs[w1].pc = "responded" /\ reqs[w1].status = 200
       /\ reqs[w2].pc = "responded" /\ reqs[w2].status = 500

StartupFailures == {"Config", "AddrParse", "bind"}

\* C6 as stated. The service stops only by a configuration or bind-address
\* failure at startup, before any request; after requests it still serves.
C6_OnlyStartupFailuresStop ==
    /\ server = "stopped" => exitErr \in StartupFailures
    /\ received > 0 => server = "serving"

\* C6 as amended. No request, failed or not, takes the service out of its
\* serving state: the process stops only by a configuration or bind-address
\* failure at startup (before any request) or by the server future ending
\* with a transport error; and while it serves, a worker that is idle or
\* has answered accepts the next request.
C6_RequestsNeverStopService ==
    /\ server = "stopped" => exitErr \in StartupFailures \cup {"HyperError"}
    /\ exitErr \in StartupFailures => received = 0
    /\ server # "stopped" => exitErr = "none"
    /\ received > 0 /\ exitErr # "HyperError" => server = "serving"
    /\ \A w \in Workers :
          (server = "serving" /\ reqs[w].pc \in {"idle", "responded"}
             /\ received < MaxRequests) =>
                ENABLED (\E payload \in ConcurrentPayloads : handle_webhook_call(w, payload))

\* A worker that answered 500 and then handled the next request to a 200,
\* the service still serving.
C6_Witness ==
    \E w \in Workers :
       /\ server = "serving"
       /\ reqs[w].prev = 500
       /\ reqs[w].pc = "responded"
       /\ reqs[w].status = 200

UrlAbsent(body) ==
    /\ body.t = "obj"
    /\ "pull_request" \in DOMAIN body.o
    /\ body.o["pull_request"] # JNull
    /\ ~(body.o["pull_request"].t = "obj" /\ "url" \in DOMAIN body.o["pull_request"].o)

Evaluated(w) == \E i \in 1..Len(reqs[w].log) : reqs[w].log[i].step = "eval"

HasPullRequest(body) ==
    /\ body.t = "obj"
    /\ "pull_request" \in DOMAIN body.o
    /\ body.o["pull_request"] # JNull

\* The payload's pull_request.url, or null when there is none.
JsonUrl(body) ==
    LET pr == body.o["pull_request"] IN
       IF pr.t = "obj" /\ "url" \in DOMAIN pr.o THEN pr.o["url"] ELSE JNull

OutcomeByPayload(w) ==
    /\ reqs[w].status = 200 <=> HasPullRequest(reqs[w].body)
    /\ HasPullRequest(reqs[w].body) => reqs[w].value = JsonUrl(reqs[w].body)
    /\ ~HasPullRequest(reqs[w].body) =>
          /\ reqs[w].failedAt = "eval"
          /\ reqs[w].err = "DenoCore"
          /\ reqs[w].status = 500

\* C9 as stated. Every answered request succeeded with the payload's
\* pull_request.url exactly when the payload has a pull_request that is not
\* null, and otherwise ended in a runtime error and a 500.
C9_SuccessIffPullRequest ==
    \A w \in Workers : reqs[w].pc = "responded" => OutcomeByPayload(w)

\* C9 as amended. The same, for every answered request whose payload was
\* bound (no failure at to_v8, the key or the set).
C9_SuccessIffPullRequestWhenBound ==
    \A w \in Workers :
       (reqs[w].pc = "responded" /\ reqs[w].failedAt \notin BindSteps) =>
          OutcomeByPayload(w)

\* The example payload answered 200 with its url extracted.
C9_Witness ==
    \E w \in Workers :
       /\ reqs[w].pc = "responded"
       /\ reqs[w].body = JObj([pull_request |-> JObj([url |-> ExampleUrl])])
       /\ reqs[w].status = 200
       /\ reqs[w].value = ExampleUrl

ValidLog(L, rt) ==
    \A i \in 1..Len(L) :
       /\ L[i].rt = rt
       /\ i = 1 => L[i].step = "create"
       /\ L[i].step = "create" => i = 1 /\ L[i].ok
       /\ L[i].step = "bind" => i = 2
       /\ L[i].step = "eval" => i = 3 /\ L[2].step = "bind" /\ L[2].ok
       /\ L[i].step = "extract" => i = 4 /\ L[3].step = "eval" /\ L[3].ok
       /\ L[i].step = "destroy" =>
             /\ i > 2
             /\ L[i - 1].step \in {"bind", "eval", "extract"}
             /\ L[i - 1].ok => L[i - 1].step = "extract"
       /\ L[i].step = "respond" => i = Len(L) /\ i > 3 /\ L[i - 1].step = "destroy"
       /\ (~L[i].ok /\ i < Len(L)) => L[i + 1].step = "destroy"

LastStep(L) == IF L = <<>> THEN "none" ELSE L[Len(L)].step

\* C10. The steps of one request happen in the order create, bind, evaluate,
\* extract, destroy, respond, each at most once: evaluation only after a
\* successful bind, extraction only after a successful evaluation, the first
\* failing step followed by destroy alone, one response and only after the
\* destroy; every step of a request is on its own runtime, which no other
\* request's steps touch.
C10_PipelineOrder ==
    /\ \A w \in Workers :
          /\ ValidLog(reqs[w].log, reqs[w].rt)
          /\ reqs[w].pc = "responded" <=> LastStep(reqs[w].log) = "respond"
          /\ reqs[w].pc = "returned" <=> LastStep(reqs[w].log) = "destroy"
          /\ reqs[w].pc \in {"idle", "called"} <=> reqs[w].log = <<>>
          /\ reqs[w].status # 0 <=> reqs[w].pc = "responded"
    /\ \A w1, w2 \in Workers :
          (w1 # w2 /\ Holding(w1)) => reqs[w1].rt # reqs[w2].rt

\* Two interleaved requests: the one that created its runtime later has gone
\* through all six steps while the other, its payload bound, has yet to
\* evaluate.
C10_Witness ==
    \E w1, w2 \in Workers :
       /\ Len(reqs[w1].log) = 6 /\ reqs[w1].pc = "responded"
       /\ reqs[w2].pc = "bound"
       /\ reqs[w2].rt < reqs[w1].rt

=============================================================================
